---- MODULE Spec2Model ----
(***************************************************************************)
(* Tablet placement metadata of locator/tablets.{hh,cc}: token-to-tablet   *)
(* arithmetic, tablet_map, tablet_metadata and the token range splitter of *)
(* the tablet-aware effective replication map.                             *)
(*                                                                         *)
(* Tokens are scaled from 64 bits down to TokenBits bits; all arithmetic   *)
(* keeps that width (mod 2^TokenBits).                                     *)
(***************************************************************************)
EXTENDS Integers, Sequences, FiniteSets, TLC

VARIABLES tmap, meta, res, splitter, topology, pub, refs, task, opts

\* the state of the replication map, of the published versions, of the
\* snapshot's owners, of clear_gently and of the strategy options
rest == <<topology, pub, refs, task, opts>>

vars == <<tmap, meta, res, splitter, topology, pub, refs, task, opts>>

(***************************************************************************)
(* Bounds of the model.                                                    *)
(***************************************************************************)
\* width of dht::token::_data (64 in the program)
TokenBits == 4
\* largest log2(tablet_count) used for the token arithmetic
MaxLog2 == 3
\* largest tablet_count handed to the tablet_map constructor
MaxTabletCount == 3
\* largest shard id
MaxShard == 1
\* next_token() calls made on a splitter that has run out of tablets
MaxExhaustedCalls == 2
\* log2(tablet_count) of the table of the replication map
ErmLog2 == 1
\* log2(tablet_count) of the map whose tablets migrate
MigrationLog2 == 1
\* set_tablet / set_tablet_transition_info calls of one update
MaxWrites == 2
\* versions a writer publishes
MaxPublishes == 1
\* elements clear_gently releases before it has to give up its turn
MaxBatch == 2
\* log2(tablet_count) of the maps given to a copied tablet_metadata
CopyLog2 == 0
\* length of an option's value
MaxOptionLen == 3
\* width of long and of size_t
LongBits == 8

(***************************************************************************)
(* Values.                                                                 *)
(***************************************************************************)
Pow2(k) == 2 ^ k

Hosts == {"hostA", "hostB"}
Shards == 0 .. MaxShard
TableIds == {"T1", "T2"}

tablet_replica(h, s) == [host |-> h, shard |-> s]

\* std::optional<T> / nullable pointer: <<>> is disengaged, <<v>> holds v
nullopt == <<>>
some(v) == <<v>>

Ok(v) == [status |-> "ok", value |-> v]
Throw(e) == [status |-> e]

NoMap == [none |-> TRUE]
NoResult == [op |-> "none"]

NotUsed == [unused |-> TRUE]

\* the parts of the state a specification does not use
RestUnused ==
    /\ topology = NotUsed
    /\ pub = NotUsed
    /\ refs = NotUsed
    /\ task = NotUsed
    /\ opts = NotUsed

\* a splitter on which reset() was never called
NewSplitter == [next |-> nullopt, emitted |-> <<>>, pos |-> nullopt, restarted |-> FALSE]

(***************************************************************************)
(* dht::token, its order and the compaction-group arithmetic.              *)
(***************************************************************************)
MinData == 0 - Pow2(TokenBits - 1)
MaxData == Pow2(TokenBits - 1) - 1

minimum_token == [kind |-> "before_all_keys", data |-> 0]
maximum_token == [kind |-> "after_all_keys", data |-> 0]
key_token(d) == [kind |-> "key", data |-> d]

KeyTokens == {key_token(d) : d \in MinData .. MaxData}
Tokens == KeyTokens \cup {minimum_token, maximum_token}

\* position of a token in the total order: kind first, then data
token_rank(t) ==
    CASE t.kind = "before_all_keys" -> MinData - 1
      [] t.kind = "key" -> t.data
      [] t.kind = "after_all_keys" -> MaxData + 1

token_less(a, b) == token_rank(a) < token_rank(b)
token_leq(a, b) == token_rank(a) <= token_rank(b)

\* uint64_t(t._data) + uint64_t(INT64_MIN), modulo the width
unbias(t) == (t.data + Pow2(TokenBits) + Pow2(TokenBits - 1)) % Pow2(TokenBits)

\* token(kind::key, n - uint64_t(INT64_MIN)), as a signed value of the width
bias(n) ==
    LET u == (n + Pow2(TokenBits - 1)) % Pow2(TokenBits) IN
    key_token(IF u >= Pow2(TokenBits - 1) THEN u - Pow2(TokenBits) ELSE u)

\* the top most_significant_bits bits of the unbiased token
compaction_group_of(most_significant_bits, t) ==
    IF most_significant_bits = 0 THEN 0
    ELSE CASE t.kind = "before_all_keys" -> 0
           [] t.kind = "after_all_keys" -> Pow2(most_significant_bits) - 1
           [] t.kind = "key" -> unbias(t) \div Pow2(TokenBits - most_significant_bits)

last_token_of_compaction_group(most_significant_bits, group) ==
    IF group = Pow2(most_significant_bits) - 1
    THEN bias(Pow2(TokenBits) - 1)
    ELSE bias((((group + 1) * Pow2(TokenBits - most_significant_bits)) - 1
               + Pow2(TokenBits)) % Pow2(TokenBits))

\* the smallest token of the space
first_token == minimum_token

\* the token that follows t in the order
next_token(t) ==
    CASE t.kind = "before_all_keys" -> key_token(MinData)
      [] t.kind = "after_all_keys" -> maximum_token
      [] t.kind = "key" -> IF t.data = MaxData THEN maximum_token
                           ELSE key_token(t.data + 1)

\* dht::token_range::make({start, inclusive}, {end, inclusive})
make_range(s, sIncl, e, eIncl) ==
    [start |-> [value |-> s, inclusive |-> sIncl],
     end |-> [value |-> e, inclusive |-> eIncl]]

range_contains(r, t) ==
    /\ IF r.start.inclusive THEN token_leq(r.start.value, t)
                            ELSE token_less(r.start.value, t)
    /\ IF r.end.inclusive THEN token_leq(t, r.end.value)
                          ELSE token_less(t, r.end.value)

(***************************************************************************)
(* tablet_map                                                              *)
(***************************************************************************)
RECURSIVE log2ceil_from(_, _)
log2ceil_from(n, k) == IF Pow2(k) >= n THEN k ELSE log2ceil_from(n, k + 1)

\* seastar::log2ceil: 0 for n <= 1, else the least k with 2^k >= n
log2ceil(n) == IF n <= 1 THEN 0 ELSE log2ceil_from(n, 1)

\* a default-constructed tablet_info
empty_tablet_info == [replicas |-> <<>>]

tablet_count(m) == Len(m.tablets)

first_tablet(m) == 0

last_tablet(m) == tablet_count(m) - 1

\* mutant: the ring wraps around to the first tablet
next_tablet_wraps(m, t) == IF t = last_tablet(m) THEN some(first_tablet(m)) ELSE some(t + 1)

next_tablet(m, t) == IF t = last_tablet(m) THEN nullopt ELSE some(t + 1)

\* mutant: no power-of-two check
tablet_map_ctor_unchecked(n) ==
    Ok([tablets |-> [i \in 1 .. n |-> empty_tablet_info],
        log2_tablets |-> log2ceil(n),
        transitions |-> <<>>])

\* tablet_map::tablet_map(size_t tablet_count)
tablet_map_ctor(n) ==
    LET log2 == log2ceil(n) IN
    IF n # Pow2(log2)
    THEN Throw("internal_error")
    ELSE Ok([tablets |-> [i \in 1 .. n |-> empty_tablet_info],
             log2_tablets |-> log2,
             transitions |-> <<>>])

\* TRUE when the id passes, FALSE when std::logic_error is thrown
check_tablet_id(m, id) == ~(id >= tablet_count(m))

get_tablet_info(m, id) ==
    IF ~check_tablet_id(m, id) THEN Throw("logic_error")
    ELSE Ok(m.tablets[id + 1])

\* mutant: the low bits of the token instead of the top ones
get_tablet_id_low_bits(m, t) ==
    IF t.kind = "key" THEN unbias(t) % Pow2(m.log2_tablets)
    ELSE compaction_group_of(m.log2_tablets, t)

get_tablet_id(m, t) == compaction_group_of(m.log2_tablets, t)

\* mutant: no check of the id
get_last_token_unchecked(m, id) ==
    Ok(last_token_of_compaction_group(m.log2_tablets, id))

get_last_token(m, id) ==
    IF ~check_tablet_id(m, id) THEN Throw("logic_error")
    ELSE Ok(last_token_of_compaction_group(m.log2_tablets, id))

get_first_token(m, id) ==
    IF id = first_tablet(m) THEN Ok(first_token)
    ELSE LET prev == get_last_token(m, id - 1) IN
         IF prev.status # "ok" THEN prev
         ELSE Ok(next_token(prev.value))

\* mutant: the range [prev_last, this_last) instead of (prev_last, this_last]
get_token_range_closed_open(m, id) ==
    IF id = first_tablet(m)
    THEN LET last == get_last_token(m, id) IN
         IF last.status # "ok" THEN last
         ELSE Ok(make_range(minimum_token, TRUE, last.value, FALSE))
    ELSE LET prev == get_last_token(m, id - 1)
             last == get_last_token(m, id) IN
         IF prev.status # "ok" THEN prev
         ELSE IF last.status # "ok" THEN last
         ELSE Ok(make_range(prev.value, TRUE, last.value, FALSE))

\* mutant: the range [prev_last, this_last], which shares a token with its neighbour
get_token_range_closed(m, id) ==
    IF id = first_tablet(m)
    THEN LET last == get_last_token(m, id) IN
         IF last.status # "ok" THEN last
         ELSE Ok(make_range(minimum_token, FALSE, last.value, TRUE))
    ELSE LET prev == get_last_token(m, id - 1)
             last == get_last_token(m, id) IN
         IF prev.status # "ok" THEN prev
         ELSE IF last.status # "ok" THEN last
         ELSE Ok(make_range(prev.value, TRUE, last.value, TRUE))

get_token_range(m, id) ==
    IF id = first_tablet(m)
    THEN LET last == get_last_token(m, id) IN
         IF last.status # "ok" THEN last
         ELSE Ok(make_range(minimum_token, FALSE, last.value, TRUE))
    ELSE LET prev == get_last_token(m, id - 1)
             last == get_last_token(m, id) IN
         IF prev.status # "ok" THEN prev
         ELSE IF last.status # "ok" THEN last
         ELSE Ok(make_range(prev.value, FALSE, last.value, TRUE))

\* mutant: writing the transition's next set as the replicas ends the transition
set_tablet_completing(m, id, info) ==
    IF ~check_tablet_id(m, id) THEN Throw("logic_error")
    ELSE IF id \in DOMAIN m.transitions /\ m.transitions[id].next = info.replicas
    THEN Ok([m EXCEPT !.tablets[id + 1] = info,
                      !.transitions = [k \in (DOMAIN m.transitions) \ {id} |->
                                          m.transitions[k]]])
    ELSE Ok([m EXCEPT !.tablets[id + 1] = info])

set_tablet(m, id, info) ==
    IF ~check_tablet_id(m, id) THEN Throw("logic_error")
    ELSE Ok([m EXCEPT !.tablets[id + 1] = info])

\* mutant: pending_replica is recomputed as the first member of next that is
\* not a current replica, when there is one
set_tablet_transition_info_derived(m, id, info) ==
    IF ~check_tablet_id(m, id) THEN Throw("logic_error")
    ELSE LET current == {m.tablets[id + 1].replicas[i] : i \in DOMAIN m.tablets[id + 1].replicas}
             fresh == {i \in DOMAIN info.next : info.next[i] \notin current}
             stored == IF fresh = {} THEN info
                       ELSE [info EXCEPT !.pending_replica =
                                info.next[CHOOSE i \in fresh : \A j \in fresh : i <= j]] IN
         Ok([m EXCEPT !.transitions =
                [k \in (DOMAIN m.transitions) \cup {id} |->
                    IF k = id THEN stored ELSE m.transitions[k]]])

\* mutant: the entry replaces the whole overlay
set_tablet_transition_info_alone(m, id, info) ==
    IF ~check_tablet_id(m, id) THEN Throw("logic_error")
    ELSE Ok([m EXCEPT !.transitions = [k \in {id} |-> info]])

\* mutant: no check of the id
set_tablet_transition_info_unchecked(m, id, info) ==
    Ok([m EXCEPT !.transitions =
           [k \in (DOMAIN m.transitions) \cup {id} |->
               IF k = id THEN info ELSE m.transitions[k]]])

\* _transitions.insert_or_assign(id, info)
set_tablet_transition_info(m, id, info) ==
    IF ~check_tablet_id(m, id) THEN Throw("logic_error")
    ELSE Ok([m EXCEPT !.transitions =
                [k \in (DOMAIN m.transitions) \cup {id} |->
                    IF k = id THEN info ELSE m.transitions[k]]])

\* nullptr (<<>>) when _transitions holds no entry for id
get_tablet_transition_info(m, id) ==
    IF id \notin DOMAIN m.transitions THEN Ok(nullopt)
    ELSE Ok(some(m.transitions[id]))

RECURSIVE first_replica_on(_, _, _)
first_replica_on(replicas, host, i) ==
    IF i > Len(replicas) THEN nullopt
    ELSE IF replicas[i].host = host THEN some(replicas[i].shard)
    ELSE first_replica_on(replicas, host, i + 1)

\* mutant: the pending replica is looked at before the current replicas
get_shard_pending_first(m, tid, host) ==
    LET info == get_tablet_info(m, tid) IN
    IF info.status # "ok" THEN info
    ELSE LET found == first_replica_on(info.value.replicas, host, 1)
             tinfo == get_tablet_transition_info(m, tid).value IN
         IF tinfo # nullopt /\ tinfo[1].pending_replica.host = host
         THEN Ok(some(tinfo[1].pending_replica.shard))
         ELSE IF found # nullopt THEN Ok(found)
              ELSE Ok(nullopt)

get_shard(m, tid, host) ==
    LET info == get_tablet_info(m, tid) IN
    IF info.status # "ok" THEN info
    ELSE LET found == first_replica_on(info.value.replicas, host, 1)
             tinfo == get_tablet_transition_info(m, tid).value IN
         IF found # nullopt THEN Ok(found)
         ELSE IF tinfo # nullopt /\ tinfo[1].pending_replica.host = host
              THEN Ok(some(tinfo[1].pending_replica.shard))
              ELSE Ok(nullopt)

(***************************************************************************)
(* Inputs of the operations.                                               *)
(***************************************************************************)
\* tablet ids handed to the operations: every id of the map and two more
TabletIdInputs == IF tmap = NoMap THEN {} ELSE 0 .. (tablet_count(tmap) + 1)

TabletCountInputs == 0 .. MaxTabletCount

TabletInfoInputs ==
    { [replicas |-> <<tablet_replica("hostA", 0)>>],
      [replicas |-> <<tablet_replica("hostA", 0), tablet_replica("hostB", MaxShard)>>] }

TransitionInputs ==
    { [next |-> <<tablet_replica("hostB", 0), tablet_replica("hostA", MaxShard)>>,
       pending_replica |-> tablet_replica("hostA", MaxShard)] }

(***************************************************************************)
(* Operations on one tablet_map.                                           *)
(***************************************************************************)
Construct(n) ==
    LET r == tablet_map_ctor(n) IN
    /\ tmap' = IF r.status = "ok" THEN r.value ELSE NoMap
    /\ res' = [op |-> "tablet_map", count |-> n, status |-> r.status]
    /\ UNCHANGED <<meta, splitter, rest>>

SetTablet(id, info) ==
    LET r == set_tablet(tmap, id, info) IN
    /\ tmap # NoMap
    /\ tmap' = IF r.status = "ok" THEN r.value ELSE tmap
    /\ res' = [op |-> "set_tablet", id |-> id, info |-> info, status |-> r.status]
    /\ UNCHANGED <<meta, splitter, rest>>

SetTabletTransitionInfo(id, info) ==
    LET r == set_tablet_transition_info(tmap, id, info) IN
    /\ tmap # NoMap
    /\ tmap' = IF r.status = "ok" THEN r.value ELSE tmap
    /\ res' = [op |-> "set_tablet_transition_info", id |-> id, info |-> info,
               status |-> r.status]
    /\ UNCHANGED <<meta, splitter, rest>>

\* a const accessor: records what it returned or threw
Query(op, args, r) ==
    /\ tmap # NoMap
    /\ res' = [op |-> op, args |-> args, ret |-> r]
    /\ UNCHANGED <<tmap, meta, splitter, rest>>

GetTabletInfo(id) == Query("get_tablet_info", <<id>>, get_tablet_info(tmap, id))

GetTabletTransitionInfo(id) ==
    Query("get_tablet_transition_info", <<id>>, get_tablet_transition_info(tmap, id))

GetShard(id, host) == Query("get_shard", <<id, host>>, get_shard(tmap, id, host))

GetTabletId(t) == Query("get_tablet_id", <<t>>, Ok(get_tablet_id(tmap, t)))

GetLastToken(id) == Query("get_last_token", <<id>>, get_last_token(tmap, id))

GetFirstToken(id) == Query("get_first_token", <<id>>, get_first_token(tmap, id))

GetTokenRange(id) == Query("get_token_range", <<id>>, get_token_range(tmap, id))

(***************************************************************************)
(* Spec: the life of one tablet_map, from construction on.                 *)
(***************************************************************************)
Init ==
    /\ tmap = NoMap
    /\ meta = <<>>
    /\ res = NoResult
    /\ splitter = NewSplitter
    /\ RestUnused

Next ==
    \/ \E n \in TabletCountInputs : Construct(n)
    \/ \E id \in TabletIdInputs, info \in TabletInfoInputs : SetTablet(id, info)
    \/ \E id \in TabletIdInputs, info \in TransitionInputs :
          SetTabletTransitionInfo(id, info)
    \/ \E id \in TabletIdInputs : GetTabletInfo(id)
    \/ \E id \in TabletIdInputs : GetTabletTransitionInfo(id)
    \/ \E id \in TabletIdInputs, h \in Hosts : GetShard(id, h)
    \/ \E id \in TabletIdInputs : GetLastToken(id)
    \/ \E id \in TabletIdInputs : GetFirstToken(id)
    \/ \E id \in TabletIdInputs : GetTokenRange(id)

Spec == Init /\ [][Next]_vars

(***************************************************************************)
(* SpecTokens: the token arithmetic of a map of any power-of-two size.     *)
(***************************************************************************)
InitTokens ==
    /\ \E k \in 0 .. MaxLog2 : tmap = tablet_map_ctor(Pow2(k)).value
    /\ meta = <<>>
    /\ res = NoResult
    /\ splitter = NewSplitter
    /\ RestUnused

NextTokens ==
    \/ \E t \in Tokens : GetTabletId(t)
    \/ \E id \in TabletIdInputs : GetLastToken(id)
    \/ \E id \in TabletIdInputs : GetFirstToken(id)
    \/ \E id \in TabletIdInputs : GetTokenRange(id)

SpecTokens == InitTokens /\ [][NextTokens]_vars

(***************************************************************************)
(* The splitter of tablet_effective_replication_map::make_splitter.        *)
(* splitter.next is its _next; emitted (what next_token() returned since   *)
(* the last reset), pos (the token of the last reset) and restarted (a     *)
(* reset came after next_token() calls) record its history.                *)
(***************************************************************************)
\* _next after reset(pos), pos.token() = t
splitter_reset(m, t) == some(get_tablet_id(m, t))

\* next_token(): what it returns or throws, and _next afterwards
splitter_next_token(m, next) ==
    IF next = nullopt THEN [ret |-> Ok(nullopt), next |-> next]
    ELSE LET t == get_last_token(m, next[1]) IN
         IF t.status # "ok" THEN [ret |-> t, next |-> next]
         ELSE [ret |-> Ok(some(t.value)), next |-> next_tablet(m, next[1])]

RECURSIVE exhausted_calls(_)
exhausted_calls(emitted) ==
    IF emitted = <<>> \/ emitted[Len(emitted)] # Ok(nullopt) THEN 0
    ELSE 1 + exhausted_calls(SubSeq(emitted, 1, Len(emitted) - 1))

Reset(t) ==
    /\ splitter' = [next |-> splitter_reset(tmap, t),
                    emitted |-> <<>>,
                    pos |-> some(t),
                    restarted |-> (splitter.emitted # <<>>)]
    /\ res' = [op |-> "reset", args |-> <<t>>]
    /\ UNCHANGED <<tmap, meta, rest>>

NextToken ==
    LET r == splitter_next_token(tmap, splitter.next) IN
    /\ exhausted_calls(splitter.emitted) < MaxExhaustedCalls
    /\ Len(splitter.emitted) < tablet_count(tmap) + MaxExhaustedCalls
    /\ splitter' = [splitter EXCEPT !.next = r.next,
                                    !.emitted = Append(splitter.emitted, r.ret)]
    /\ res' = [op |-> "next_token", args |-> <<>>, ret |-> r.ret]
    /\ UNCHANGED <<tmap, meta, rest>>

InitSplitter ==
    /\ \E k \in 0 .. MaxLog2 : tmap = tablet_map_ctor(Pow2(k)).value
    /\ meta = <<>>
    /\ res = NoResult
    /\ splitter = NewSplitter
    /\ RestUnused

NextSplitter ==
    \/ \E t \in Tokens : Reset(t)
    \/ NextToken

SpecSplitter == InitSplitter /\ [][NextSplitter]_vars

(***************************************************************************)
(* tablet_metadata: _tablets maps table ids to tablet maps.                *)
(***************************************************************************)
\* mutant: the std::out_of_range of at() is not caught (it is a std::logic_error)
get_tablet_map_uncaught(mt, id) ==
    IF id \in DOMAIN mt THEN Ok(mt[id]) ELSE Throw("logic_error")

\* _tablets.at(id), std::out_of_range turned into std::runtime_error
get_tablet_map(mt, id) ==
    IF id \in DOMAIN mt THEN Ok(mt[id]) ELSE Throw("runtime_error")

\* mutant: _tablets.insert, which keeps the map a table already has
set_tablet_map_insert(mt, id, map) ==
    [k \in (DOMAIN mt) \cup {id} |-> IF k \in DOMAIN mt THEN mt[k] ELSE map]

\* _tablets.insert_or_assign(id, std::move(map))
set_tablet_map(mt, id, map) ==
    [k \in (DOMAIN mt) \cup {id} |-> IF k = id THEN map ELSE mt[k]]

\* tablet maps handed to set_tablet_map
TabletMapInputs ==
    LET one == tablet_map_ctor(1).value
        two == tablet_map_ctor(2).value
        ra == [replicas |-> <<tablet_replica("hostA", 0)>>]
        tr == [next |-> <<tablet_replica("hostA", 0), tablet_replica("hostB", MaxShard)>>,
               pending_replica |-> tablet_replica("hostB", MaxShard)] IN
    { one,
      set_tablet(one, 0, ra).value,
      two,
      set_tablet_transition_info(set_tablet(two, 1, ra).value, 1, tr).value }

\* arguments of the updates made in place on a map owned by the metadata
MetaTabletInfoInputs ==
    { [replicas |-> <<>>],
      [replicas |-> <<tablet_replica("hostA", 0), tablet_replica("hostB", MaxShard)>>] }

MetaTransitionInputs ==
    { [next |-> <<tablet_replica("hostB", 0)>>,
       pending_replica |-> tablet_replica("hostA", MaxShard)] }

SetTabletMap(id, map) ==
    /\ meta' = set_tablet_map(meta, id, map)
    /\ res' = [op |-> "set_tablet_map", args |-> <<id, map>>]
    /\ UNCHANGED <<tmap, splitter, rest>>

GetTabletMap(id) ==
    /\ res' = [op |-> "get_tablet_map", args |-> <<id>>, ret |-> get_tablet_map(meta, id)]
    /\ UNCHANGED <<tmap, meta, splitter, rest>>

\* get_tablet_map(table).set_tablet(id, info) through the mutable reference
MetaSetTablet(table, id, info) ==
    LET m == get_tablet_map(meta, table)
        r == IF m.status = "ok" THEN set_tablet(m.value, id, info) ELSE m IN
    /\ meta' = IF r.status = "ok" THEN [meta EXCEPT ![table] = r.value] ELSE meta
    /\ res' = [op |-> "get_tablet_map.set_tablet", args |-> <<table, id, info>>,
               status |-> r.status]
    /\ UNCHANGED <<tmap, splitter, rest>>

\* get_tablet_map(table).set_tablet_transition_info(id, info)
MetaSetTabletTransitionInfo(table, id, info) ==
    LET m == get_tablet_map(meta, table)
        r == IF m.status = "ok" THEN set_tablet_transition_info(m.value, id, info) ELSE m IN
    /\ meta' = IF r.status = "ok" THEN [meta EXCEPT ![table] = r.value] ELSE meta
    /\ res' = [op |-> "get_tablet_map.set_tablet_transition_info",
               args |-> <<table, id, info>>, status |-> r.status]
    /\ UNCHANGED <<tmap, splitter, rest>>

InitMeta ==
    /\ tmap = NoMap
    /\ meta = <<>>
    /\ res = NoResult
    /\ splitter = NewSplitter
    /\ RestUnused

NextMeta ==
    \/ \E id \in TableIds, map \in TabletMapInputs : SetTabletMap(id, map)
    \/ \E id \in TableIds : GetTabletMap(id)
    \/ \E table \in TableIds, id \in 0 .. 1, info \in MetaTabletInfoInputs :
          MetaSetTablet(table, id, info)
    \/ \E table \in TableIds, id \in 0 .. 1, info \in MetaTransitionInputs :
          MetaSetTabletTransitionInfo(table, id, info)

SpecMeta == InitMeta /\ [][NextMeta]_vars

(***************************************************************************)
(* Claims about the token arithmetic (SpecTokens).                         *)
(***************************************************************************)
ValidIds == 0 .. (tablet_count(tmap) - 1)

\* the least token above t in the order of tokens
successor(t) ==
    CHOOSE s \in Tokens :
        /\ token_less(t, s)
        /\ \A u \in Tokens : token_less(t, u) => token_leq(s, u)

\* C1: for every power-of-two tablet_count and every token t, get_tablet_id(t)
\* is an id of the map, and every token that a key can have lies inside
\* get_token_range(get_tablet_id(t)).
C1_TokenInOwnRange ==
    res.op = "get_tablet_id" =>
        LET t == res.args[1]
            id == res.ret.value
            range == get_token_range(tmap, id) IN
        /\ id \in ValidIds
        /\ range.status = "ok"
        /\ t \in KeyTokens => range_contains(range.value, t)

C1_Witness ==
    /\ res.op = "get_tablet_id"
    /\ tablet_count(tmap) = Pow2(MaxLog2)
    /\ res.args[1] \in KeyTokens
    /\ res.ret.value = last_tablet(tmap)

\* C2: the ranges get_token_range(id) of the ids of the map are pairwise
\* disjoint, every key token lies in one of them, the last one ends at the
\* largest key token (inclusive), and for id > 0 get_first_token(id) is the
\* successor of get_last_token(id - 1).
C2_RangesPartition ==
    LET range(id) == get_token_range(tmap, id) IN
    /\ \A id \in ValidIds : range(id).status = "ok"
    /\ \A t \in Tokens :
          Cardinality({id \in ValidIds : range_contains(range(id).value, t)}) <= 1
    /\ \A t \in KeyTokens :
          \E id \in ValidIds : range_contains(range(id).value, t)
    /\ range(last_tablet(tmap)).value.end =
          [value |-> key_token(MaxData), inclusive |-> TRUE]
    /\ \A id \in ValidIds \ {0} :
          get_first_token(tmap, id) = Ok(successor(get_last_token(tmap, id - 1).value))

C2_Witness ==
    /\ res.op = "get_token_range"
    /\ tablet_count(tmap) = Pow2(MaxLog2)
    /\ res.args[1] = last_tablet(tmap)
    /\ res.ret.status = "ok"
    /\ res.ret.value.start.value \in KeyTokens

\* C3: get_tablet_id preserves the order of tokens: t1 < t2 implies
\* get_tablet_id(t1) <= get_tablet_id(t2).
C3_TabletIdMonotonic ==
    \A t1, t2 \in Tokens :
        token_less(t1, t2) => get_tablet_id(tmap, t1) <= get_tablet_id(tmap, t2)

C3_Witness ==
    /\ res.op = "get_tablet_id"
    /\ tablet_count(tmap) = Pow2(MaxLog2)
    /\ res.ret.value > 0
    /\ res.ret.value < last_tablet(tmap)
    /\ \E t \in KeyTokens :
          /\ token_less(res.args[1], t)
          /\ get_tablet_id(tmap, t) > res.ret.value

(***************************************************************************)
(* Claims about one tablet_map (Spec).                                     *)
(***************************************************************************)
\* the indexes of the replicas of a tablet that live on a host
replicas_on(id, host) ==
    {i \in DOMAIN tmap.tablets[id + 1].replicas :
        tmap.tablets[id + 1].replicas[i].host = host}

least(S) == CHOOSE i \in S : \A j \in S : i <= j

has_transition(id) == id \in DOMAIN tmap.transitions

IsPowerOfTwo(n) == \E k \in 0 .. n : n = 2 ^ k

\* C4: after any sequence of set_tablet / set_tablet_transition_info calls,
\* get_shard(id, host) is the shard of the current replica on host when there
\* is one (also when host is the pending replica's host), else the pending
\* replica's shard when the tablet has a transition whose pending replica is
\* on host, else nothing.
C4_GetShardResolution ==
    (res.op = "get_shard" /\ res.args[1] \in ValidIds) =>
        LET id == res.args[1]
            host == res.args[2] IN
        /\ res.ret.status = "ok"
        /\ res.ret.value =
              IF replicas_on(id, host) # {}
              THEN some(tmap.tablets[id + 1].replicas[least(replicas_on(id, host))].shard)
              ELSE IF has_transition(id)
                      /\ tmap.transitions[id].pending_replica.host = host
                   THEN some(tmap.transitions[id].pending_replica.shard)
                   ELSE nullopt

\* the host has a current replica and is the pending replica's host with
\* another shard; get_shard answered with the current one
C4_Witness ==
    /\ res.op = "get_shard"
    /\ res.args[1] \in ValidIds
    /\ replicas_on(res.args[1], res.args[2]) # {}
    /\ has_transition(res.args[1])
    /\ tmap.transitions[res.args[1]].pending_replica.host = res.args[2]
    /\ res.ret.value # some(tmap.transitions[res.args[1]].pending_replica.shard)

\* C8: constructing a tablet_map with a count that is not a power of two fails
\* with the internal error and produces no map; with a power of two (1
\* included) it yields exactly that many tablets, each without replicas, and
\* no transition.
C8_ConstructorPowerOfTwo ==
    res.op = "tablet_map" =>
        IF IsPowerOfTwo(res.count)
        THEN /\ res.status = "ok"
             /\ tmap # NoMap
             /\ tablet_count(tmap) = res.count
             /\ \A i \in DOMAIN tmap.tablets : tmap.tablets[i].replicas = <<>>
             /\ DOMAIN tmap.transitions = {}
        ELSE /\ res.status = "internal_error"
             /\ tmap = NoMap

C8_Witness ==
    /\ res.op = "tablet_map"
    /\ res.count > 2
    /\ ~IsPowerOfTwo(res.count)
    /\ res.status = "internal_error"

\* C9: for every id outside [0, tablet_count), get_tablet_info, get_last_token,
\* get_token_range and get_shard throw the invalid-tablet-id error
\* (std::logic_error) instead of returning a value.
C9_InvalidIdThrows ==
    (/\ res.op \in {"get_tablet_info", "get_last_token", "get_token_range", "get_shard"}
     /\ res.args[1] \notin ValidIds)
        => res.ret.status = "logic_error"

\* get_token_range(tablet_count): the previous tablet exists, the id does not
C9_Witness ==
    /\ res.op = "get_token_range"
    /\ res.args[1] = tablet_count(tmap)
    /\ res.ret.status = "logic_error"

\* C10: get_tablet_transition_info(id) throws the invalid-tablet-id error
\* (std::logic_error) for every id outside [0, tablet_count); it returns
\* 'no transition' only for ids of the map.
C10_TransitionInfoChecksId ==
    (res.op = "get_tablet_transition_info" /\ res.args[1] \notin ValidIds)
        => res.ret.status = "logic_error"

(***************************************************************************)
(* Claims about the splitter (SpecSplitter).                               *)
(***************************************************************************)
\* what the i-th next_token() after reset(pos) has to return
expected_token(pos, i) ==
    LET id == get_tablet_id(tmap, pos) + i - 1 IN
    IF id \in ValidIds THEN Ok(some(get_last_token(tmap, id).value)) ELSE Ok(nullopt)

\* C5: for a map of N tablets, after reset(pos) the next_token() calls return
\* get_last_token(id) for id = get_tablet_id(pos), ..., N-1 in ascending
\* order and nothing on every further call; a later reset(pos2), in the
\* middle of the sequence or after its end, restarts it from
\* get_tablet_id(pos2).
C5_SplitterSequence ==
    splitter.pos # nullopt =>
        /\ \A i \in DOMAIN splitter.emitted :
              splitter.emitted[i] = expected_token(splitter.pos[1], i)
        /\ \A i, j \in DOMAIN splitter.emitted :
              (i < j /\ splitter.emitted[j] # Ok(nullopt)) =>
                  token_less(splitter.emitted[i].value[1], splitter.emitted[j].value[1])

\* a reset in the middle of a run, then the whole sequence from a tablet that
\* is not the first, then a call that returns nothing
C5_Witness ==
    /\ splitter.restarted
    /\ splitter.pos # nullopt
    /\ tablet_count(tmap) = Pow2(MaxLog2)
    /\ get_tablet_id(tmap, splitter.pos[1]) = 1
    /\ Len(splitter.emitted) = tablet_count(tmap)
    /\ splitter.emitted[Len(splitter.emitted)] = Ok(nullopt)
    /\ splitter.emitted[Len(splitter.emitted) - 1] = Ok(some(key_token(MaxData)))

(***************************************************************************)
(* Claims about tablet_metadata (SpecMeta).                                *)
(***************************************************************************)
\* C6: set_tablet_map(T, M) is insert-or-replace: afterwards get_tablet_map(T)
\* returns a map equal to M (tablets and transitions) whether or not T had a
\* map before, T is the only identity that may have gained a map, and the
\* maps of all other tables are unchanged.
C6_SetTabletMapInsertOrReplace ==
    [][res'.op = "set_tablet_map" =>
        LET T == res'.args[1]
            M == res'.args[2] IN
        /\ get_tablet_map(meta', T) = Ok(M)
        /\ get_tablet_map(meta', T).value.tablets = M.tablets
        /\ get_tablet_map(meta', T).value.transitions = M.transitions
        /\ DOMAIN meta' = (DOMAIN meta) \cup {T}
        /\ \A other \in (DOMAIN meta) \ {T} : meta'[other] = meta[other]]_vars

\* T had another map, with a transition, and a second table has a map
C6_Witness ==
    /\ res.op = "set_tablet_map"
    /\ DOMAIN meta = TableIds
    /\ meta[res.args[1]] = res.args[2]
    /\ DOMAIN res.args[2].transitions # {}
    /\ \E other \in TableIds : meta[other] # res.args[2]

\* the error thrown for a tablet id that is not of the map
invalid_tablet_id_error == get_tablet_info(tablet_map_ctor(1).value, 1).status

\* C7: get_tablet_map(T) for a table identity without a map throws the
\* not-found error (std::runtime_error), which is not the invalid-tablet-id
\* error, and leaves the metadata unchanged.
C7_GetTabletMapNotFound ==
    [][(res'.op = "get_tablet_map" /\ res'.args[1] \notin DOMAIN meta) =>
        /\ res'.ret.status = "runtime_error"
        /\ res'.ret.status # invalid_tablet_id_error
        /\ meta' = meta]_vars

\* the table asked for has no map while another table has one
C7_Witness ==
    /\ res.op = "get_tablet_map"
    /\ res.args[1] \notin DOMAIN meta
    /\ DOMAIN meta # {}
    /\ res.ret.status = "runtime_error"

\* C11: get_first_token(id) throws the invalid-tablet-id error
\* (std::logic_error) for every id that is not of the map, in particular for
\* id = tablet_count.
C11_FirstTokenChecksId ==
    (res.op = "get_first_token" /\ res.args[1] \notin ValidIds)
        => res.ret.status = "logic_error"

(***************************************************************************)
(* tablet_effective_replication_map: bound to one table (ErmTable) and to  *)
(* one topology snapshot, which holds the tablet metadata (meta) and the   *)
(* host id <-> endpoint lookups (topology: host id -> endpoint).           *)
(***************************************************************************)
ErmTable == "T1"

Endpoints == {"ipA", "ipB", "ipC"}

\* token_metadata::get_endpoint_for_host_id: the endpoint, if the host is known
tm_get_endpoint_for_host_id(topo, host) ==
    IF host \in DOMAIN topo THEN some(topo[host]) ELSE nullopt

\* token_metadata::get_host_id_if_known: the host id, if the endpoint is known
tm_get_host_id_if_known(topo, endpoint) ==
    IF \E h \in DOMAIN topo : topo[h] = endpoint
    THEN some(CHOOSE h \in DOMAIN topo : topo[h] = endpoint)
    ELSE nullopt

\* mutant: an unknown host id is skipped over with a placeholder endpoint
erm_get_endpoint_for_host_id_lenient(topo, host) ==
    LET endpoint_opt == tm_get_endpoint_for_host_id(topo, host) IN
    IF endpoint_opt = nullopt THEN Ok("ipC") ELSE Ok(endpoint_opt[1])

erm_get_endpoint_for_host_id(topo, host) ==
    LET endpoint_opt == tm_get_endpoint_for_host_id(topo, host) IN
    IF endpoint_opt = nullopt THEN Throw("internal_error") ELSE Ok(endpoint_opt[1])

\* the endpoints of replicas[i..], in order; the first unknown host throws
RECURSIVE to_replica_set_from(_, _, _)
to_replica_set_from(topo, replicas, i) ==
    IF i > Len(replicas) THEN Ok(<<>>)
    ELSE LET e == erm_get_endpoint_for_host_id(topo, replicas[i].host) IN
         IF e.status # "ok" THEN e
         ELSE LET tail == to_replica_set_from(topo, replicas, i + 1) IN
              IF tail.status # "ok" THEN tail
              ELSE Ok(<<e.value>> \o tail.value)

to_replica_set(topo, replicas) == to_replica_set_from(topo, replicas, 1)

\* _tmptr->tablets().get_tablet_map(_table)
erm_get_tablet_map(mt) == get_tablet_map(mt, ErmTable)

get_natural_endpoints(mt, topo, search_token) ==
    LET tablets == erm_get_tablet_map(mt) IN
    IF tablets.status # "ok" THEN tablets
    ELSE LET tablet == get_tablet_id(tablets.value, search_token)
             info == get_tablet_info(tablets.value, tablet) IN
         IF info.status # "ok" THEN info
         ELSE to_replica_set(topo, info.value.replicas)

\* mutant: every member of next is reported as pending
get_pending_endpoints_all_next(mt, topo, search_token) ==
    LET tablets == erm_get_tablet_map(mt) IN
    IF tablets.status # "ok" THEN tablets
    ELSE LET tablet == get_tablet_id(tablets.value, search_token)
             info == get_tablet_transition_info(tablets.value, tablet) IN
         IF info.value = nullopt THEN Ok(<<>>)
         ELSE to_replica_set(topo, info.value[1].next)

get_pending_endpoints(mt, topo, search_token) ==
    LET tablets == erm_get_tablet_map(mt) IN
    IF tablets.status # "ok" THEN tablets
    ELSE LET tablet == get_tablet_id(tablets.value, search_token)
             info == get_tablet_transition_info(tablets.value, tablet) IN
         IF info.status # "ok" THEN info
         ELSE IF info.value = nullopt THEN Ok(<<>>)
         ELSE LET e == erm_get_endpoint_for_host_id(topo, info.value[1].pending_replica.host) IN
              IF e.status # "ok" THEN e ELSE Ok(<<e.value>>)

\* mutant: only the transition of the first tablet is looked at
has_pending_ranges_first_only(mt, topo, endpoint) ==
    LET host_id == tm_get_host_id_if_known(topo, endpoint) IN
    IF host_id = nullopt THEN Ok(FALSE)
    ELSE LET tablets == erm_get_tablet_map(mt) IN
         IF tablets.status # "ok" THEN tablets
         ELSE Ok(/\ 0 \in DOMAIN tablets.value.transitions
                 /\ tablets.value.transitions[0].pending_replica.host = host_id[1])

has_pending_ranges(mt, topo, endpoint) ==
    LET host_id == tm_get_host_id_if_known(topo, endpoint) IN
    IF host_id = nullopt THEN Ok(FALSE)
    ELSE LET tablets == erm_get_tablet_map(mt) IN
         IF tablets.status # "ok" THEN tablets
         ELSE Ok(\E id \in DOMAIN tablets.value.transitions :
                    tablets.value.transitions[id].pending_replica.host = host_id[1])

\* the topologies of the snapshot: every host known, or hostB unknown
TopologyInputs ==
    { [h \in {"hostA", "hostB"} |-> IF h = "hostA" THEN "ipA" ELSE "ipB"],
      [h \in {"hostA"} |-> "ipA"] }

ErmTabletInfoInputs ==
    { [replicas |-> <<tablet_replica("hostA", 0)>>],
      [replicas |-> <<tablet_replica("hostB", MaxShard), tablet_replica("hostA", 0)>>] }

ErmTransitionInputs ==
    { [next |-> <<tablet_replica("hostA", 0), tablet_replica("hostB", MaxShard)>>,
       pending_replica |-> tablet_replica("hostB", MaxShard)] }

ErmTabletIds == 0 .. (tablet_count(meta[ErmTable]) - 1)

\* search tokens: the sentinels, the first key token and every tablet's last token
ErmTokenInputs ==
    {minimum_token, maximum_token, key_token(MinData)}
        \cup {get_last_token(meta[ErmTable], id).value : id \in ErmTabletIds}

ErmQuery(op, args, r) ==
    /\ res' = [op |-> op, args |-> args, ret |-> r]
    /\ UNCHANGED <<tmap, meta, splitter, rest>>

GetNaturalEndpoints(t) ==
    ErmQuery("get_natural_endpoints", <<t>>, get_natural_endpoints(meta, topology, t))

GetPendingEndpoints(t) ==
    ErmQuery("get_pending_endpoints", <<t>>, get_pending_endpoints(meta, topology, t))

HasPendingRanges(endpoint) ==
    ErmQuery("has_pending_ranges", <<endpoint>>, has_pending_ranges(meta, topology, endpoint))

InitErm ==
    /\ tmap = NoMap
    /\ meta = [t \in {ErmTable} |-> tablet_map_ctor(Pow2(ErmLog2)).value]
    /\ res = NoResult
    /\ splitter = NewSplitter
    /\ topology \in TopologyInputs
    /\ pub = NotUsed
    /\ refs = NotUsed
    /\ task = NotUsed
    /\ opts = NotUsed

NextErm ==
    \/ \E id \in ErmTabletIds, info \in ErmTabletInfoInputs :
          MetaSetTablet(ErmTable, id, info)
    \/ \E id \in ErmTabletIds, info \in ErmTransitionInputs :
          MetaSetTabletTransitionInfo(ErmTable, id, info)
    \/ \E t \in ErmTokenInputs : GetNaturalEndpoints(t)
    \/ \E t \in ErmTokenInputs : GetPendingEndpoints(t)
    \/ \E endpoint \in Endpoints : HasPendingRanges(endpoint)

SpecErm == InitErm /\ [][NextErm]_vars

(***************************************************************************)
(* Claims about the replication map (SpecErm).                             *)
(***************************************************************************)
\* the tablet of the replication map's table that owns a token
erm_tablet(t) == get_tablet_id(meta[ErmTable], t)

\* C12: get_natural_endpoints(token) returns, in replica order, the endpoint
\* of each current replica of the tablet that owns the token, one per
\* replica, whatever the tablet's transition; if the host of one of these
\* replicas has no endpoint in the topology snapshot, the call fails with the
\* internal error and returns nothing.
C12_NaturalEndpoints ==
    res.op = "get_natural_endpoints" =>
        LET replicas == meta[ErmTable].tablets[erm_tablet(res.args[1]) + 1].replicas IN
        IF \A i \in DOMAIN replicas : replicas[i].host \in DOMAIN topology
        THEN /\ res.ret.status = "ok"
             /\ Len(res.ret.value) = Len(replicas)
             /\ \A i \in DOMAIN replicas : res.ret.value[i] = topology[replicas[i].host]
        ELSE res.ret.status = "internal_error"

\* two replicas, both resolved, on a tablet that is in transition
C12_Witness ==
    /\ res.op = "get_natural_endpoints"
    /\ erm_tablet(res.args[1]) \in DOMAIN meta[ErmTable].transitions
    /\ res.ret = Ok(<<"ipB", "ipA">>)

\* C13: get_pending_endpoints(token) returns the empty list when the tablet
\* that owns the token has no transition, and otherwise exactly one element,
\* the endpoint of the transition's pending_replica.host, never the other
\* members of next (the call fails with the internal error when that host has
\* no endpoint).
C13_PendingEndpoints ==
    res.op = "get_pending_endpoints" =>
        LET id == erm_tablet(res.args[1])
            transitions == meta[ErmTable].transitions IN
        IF id \notin DOMAIN transitions THEN res.ret = Ok(<<>>)
        ELSE IF transitions[id].pending_replica.host \in DOMAIN topology
             THEN res.ret = Ok(<<topology[transitions[id].pending_replica.host]>>)
             ELSE res.ret.status = "internal_error"

\* the transition's next has two members, only the pending one is returned
C13_Witness ==
    /\ res.op = "get_pending_endpoints"
    /\ erm_tablet(res.args[1]) \in DOMAIN meta[ErmTable].transitions
    /\ Len(meta[ErmTable].transitions[erm_tablet(res.args[1])].next) = 2
    /\ res.ret = Ok(<<"ipB">>)

\* C14: after any sequence of set_tablet_transition_info calls on the table's
\* map, has_pending_ranges(endpoint) is true exactly when the endpoint
\* resolves to a host id that is pending_replica.host of at least one
\* transition of that map; an endpoint without a known host id gives false.
C14_HasPendingRanges ==
    res.op = "has_pending_ranges" =>
        LET transitions == meta[ErmTable].transitions
            known == {h \in DOMAIN topology : topology[h] = res.args[1]} IN
        res.ret = Ok(\E h \in known : \E id \in DOMAIN transitions :
                        transitions[id].pending_replica.host = h)

\* true because of a transition of a tablet that is not the first one
C14_Witness ==
    /\ res.op = "has_pending_ranges"
    /\ res.ret = Ok(TRUE)
    /\ 0 \notin DOMAIN meta[ErmTable].transitions

(***************************************************************************)
(* One tablet_map driven by a coordinator that makes every set_tablet and  *)
(* set_tablet_transition_info call again and again (SpecMigration).        *)
(***************************************************************************)
MigrationIds == 0 .. (Pow2(MigrationLog2) - 1)

OldReplicas == <<tablet_replica("hostA", 0)>>

NewReplicas == <<tablet_replica("hostA", 0), tablet_replica("hostB", MaxShard)>>

MigrationInfoInputs == { [replicas |-> OldReplicas], [replicas |-> NewReplicas] }

\* towards NewReplicas: with the replica that is being added as pending, and
\* with a replica the tablet already has as pending
MigrationTransitionInputs ==
    { [next |-> NewReplicas, pending_replica |-> tablet_replica("hostB", MaxShard)],
      [next |-> NewReplicas, pending_replica |-> tablet_replica("hostA", 0)] }

InitMigration ==
    /\ tmap = tablet_map_ctor(Pow2(MigrationLog2)).value
    /\ meta = <<>>
    /\ res = NoResult
    /\ splitter = NewSplitter
    /\ RestUnused

NextMigration ==
    \/ \E id \in MigrationIds, info \in MigrationInfoInputs : SetTablet(id, info)
    \/ \E id \in MigrationIds, info \in MigrationTransitionInputs :
          SetTabletTransitionInfo(id, info)

\* the coordinator does not give up on a call it can make
FairMigration ==
    /\ \A id \in MigrationIds, info \in MigrationInfoInputs :
          WF_vars(SetTablet(id, info))
    /\ \A id \in MigrationIds, info \in MigrationTransitionInputs :
          WF_vars(SetTabletTransitionInfo(id, info))

SpecMigration == InitMigration /\ [][NextMigration]_vars /\ FairMigration

(***************************************************************************)
(* Claims about the per-tablet state machine (SpecMigration).              *)
(***************************************************************************)
\* get_tablet_transition_info(id) is present
transitioning(id) == get_tablet_transition_info(tmap, id).value # nullopt

elements(seq) == {seq[i] : i \in DOMAIN seq}

\* pending_replica is a member of next and not of the current replicas
pending_well_formed(transition, replicas) ==
    /\ transition.pending_replica \in elements(transition.next)
    /\ transition.pending_replica \notin elements(replicas)

\* C15 (as stated): a tablet whose get_tablet_transition_info(id) is present
\* gets back, by set_tablet and set_tablet_transition_info calls, to a state
\* where it is absent again.
C15_StableAgain ==
    \A id \in MigrationIds : transitioning(id) ~> ~transitioning(id)

\* C15 (amended): within one tablet_map no set_tablet or
\* set_tablet_transition_info call removes a transition entry: once
\* get_tablet_transition_info(id) is present it stays present, also after
\* get_tablet_info(id).replicas has become the new set.
C15_TransitionStays ==
    [][\A id \in MigrationIds : transitioning(id) => transitioning(id)']_vars

\* the replicas have just been set to the transition's next, the entry is there
C15_Witness ==
    /\ res.op = "set_tablet"
    /\ res.status = "ok"
    /\ transitioning(res.id)
    /\ get_tablet_info(tmap, res.id).value.replicas = tmap.transitions[res.id].next

NoReader == [ref |-> 0, pos |-> 0, seen |-> <<>>]

SnapshotMap == tablet_map_ctor(Pow2(ErmLog2)).value

SnapshotIds == 0 .. (tablet_count(SnapshotMap) - 1)

SnapshotInfoInputs == { [replicas |-> <<tablet_replica("hostA", 0)>>] }

SnapshotTransitionInputs ==
    { [next |-> <<tablet_replica("hostA", 0), tablet_replica("hostB", MaxShard)>>,
       pending_replica |-> tablet_replica("hostB", MaxShard)] }

\* mutant: the writer updates the published object itself
writer_object_shared(p) == p.current

\* the object a writer updates: a full copy of the published tablet_metadata
writer_object(p) == Len(p.heap) + 1

\* what a reader learns about one tablet through the const accessors
lookup(mt, id) ==
    LET m == get_tablet_map(mt, ErmTable).value IN
    [info |-> get_tablet_info(m, id).value,
     transition |-> get_tablet_transition_info(m, id).value]

SnapshotStep(p) ==
    /\ pub' = p
    /\ UNCHANGED <<tmap, meta, res, splitter, topology, refs, task, opts>>

WriterCopy ==
    LET d == writer_object(pub) IN
    /\ pub.draft = 0
    /\ Len(pub.published) <= MaxPublishes
    /\ SnapshotStep([pub EXCEPT !.heap = IF d > Len(pub.heap)
                                         THEN Append(pub.heap, pub.heap[pub.current])
                                         ELSE pub.heap,
                                !.draft = d,
                                !.writes = 0])

\* get_tablet_map(table).set_tablet(id, info) on the writer's object
WriterSetTablet(id, info) ==
    LET m == get_tablet_map(pub.heap[pub.draft], ErmTable).value IN
    /\ pub.draft # 0
    /\ pub.writes < MaxWrites
    /\ SnapshotStep([pub EXCEPT !.heap[pub.draft][ErmTable] = set_tablet(m, id, info).value,
                                !.writes = pub.writes + 1])

\* get_tablet_map(table).set_tablet_transition_info(id, info) on the writer's object
WriterSetTabletTransitionInfo(id, info) ==
    LET m == get_tablet_map(pub.heap[pub.draft], ErmTable).value IN
    /\ pub.draft # 0
    /\ pub.writes < MaxWrites
    /\ SnapshotStep([pub EXCEPT !.heap[pub.draft][ErmTable] =
                                    set_tablet_transition_info(m, id, info).value,
                                !.writes = pub.writes + 1])

\* the writer's object becomes the version readers obtain
WriterPublish ==
    /\ pub.draft # 0
    /\ pub.writes > 0
    /\ SnapshotStep([pub EXCEPT !.current = pub.draft,
                                !.draft = 0,
                                !.published = Append(pub.published, pub.heap[pub.draft])])

\* the reader obtains the published version and its table's map
ReaderGetTabletMap ==
    /\ pub.reader.ref = 0
    /\ SnapshotStep([pub EXCEPT !.reader = [ref |-> pub.current, pos |-> 0, seen |-> <<>>]])

ReaderLookup ==
    /\ pub.reader.ref # 0
    /\ pub.reader.pos \in SnapshotIds
    /\ SnapshotStep([pub EXCEPT !.reader.seen =
                                    Append(pub.reader.seen,
                                           lookup(pub.heap[pub.reader.ref], pub.reader.pos)),
                                !.reader.pos = pub.reader.pos + 1])

ReaderDone ==
    /\ pub.reader.ref # 0
    /\ pub.reader.pos \notin SnapshotIds
    /\ SnapshotStep([pub EXCEPT !.reader = NoReader])

InitSnapshot ==
    /\ tmap = NoMap
    /\ meta = <<>>
    /\ res = NoResult
    /\ splitter = NewSplitter
    /\ topology = NotUsed
    /\ pub = [heap |-> <<[t \in {ErmTable} |-> SnapshotMap]>>,
              current |-> 1,
              draft |-> 0,
              writes |-> 0,
              published |-> <<[t \in {ErmTable} |-> SnapshotMap]>>,
              reader |-> NoReader]
    /\ refs = NotUsed
    /\ task = NotUsed
    /\ opts = NotUsed

NextSnapshot ==
    \/ WriterCopy
    \/ \E id \in SnapshotIds, info \in SnapshotInfoInputs : WriterSetTablet(id, info)
    \/ \E id \in SnapshotIds, info \in SnapshotTransitionInputs :
          WriterSetTabletTransitionInfo(id, info)
    \/ WriterPublish
    \/ ReaderGetTabletMap
    \/ ReaderLookup
    \/ ReaderDone

SpecSnapshot == InitSnapshot /\ [][NextSnapshot]_vars

(***************************************************************************)
(* Claims about published versions (SpecSnapshot).                         *)
(***************************************************************************)
\* what the reader has seen so far is what version v holds
seen_in(v) ==
    \A i \in DOMAIN pub.reader.seen : pub.reader.seen[i] = lookup(v, i - 1)

\* C17: in every interleaving of a reader's lookups with a writer's update,
\* everything the reader has observed of the table's map belongs to one
\* published version (the complete old map or the complete new one), never
\* to a map in which only part of the update has been applied.
C17_OldOrNew ==
    pub.reader.ref # 0 => \E i \in DOMAIN pub.published : seen_in(pub.published[i])

\* the reader has looked at every tablet of the old version after a new one,
\* which differs from it in more than one tablet, was published
C17_Witness ==
    /\ pub.reader.ref # 0
    /\ pub.reader.ref # pub.current
    /\ Len(pub.reader.seen) = tablet_count(SnapshotMap)
    /\ seen_in(pub.published[1])
    /\ \A id \in SnapshotIds :
          lookup(pub.heap[pub.current], id) # lookup(pub.published[1], id)

(***************************************************************************)
(* Lifetime of the topology snapshot (SpecLifetime). refs holds who owns a *)
(* token_metadata_ptr to the snapshot (holders), whether the snapshot has  *)
(* been destroyed (alive) and whether a splitter exists; meta is the       *)
(* snapshot's tablet_metadata, gone once the snapshot is destroyed.        *)
(***************************************************************************)
Owners == {"erm", "other"}

LifetimeTokenInputs ==
    {minimum_token, maximum_token}
        \cup {get_last_token(SnapshotMap, id).value : id \in SnapshotIds}

\* mutant: the splitter only borrows the map
make_splitter_borrowing(holders) == holders

\* std::make_unique<splitter>(_tmptr, get_tablet_map()): the splitter's _tmptr
\* is one more owner of the snapshot
make_splitter(holders) == holders \cup {"splitter"}

\* a token_metadata_ptr is dropped; the last one destroys the snapshot
release(r, who) ==
    LET h == r.holders \ {who} IN
    [r EXCEPT !.holders = h, !.alive = r.alive /\ h # {}]

\* _tmap.get_tablet_id(pos.token()): through a dangling reference, any value
reset_outcomes(t) ==
    IF refs.alive THEN {splitter_reset(meta[ErmTable], t)}
    ELSE {nullopt} \cup {some(id) : id \in SnapshotIds}

\* next_token(): through a dangling reference, any result and any _next
next_token_outcomes ==
    IF refs.alive THEN {splitter_next_token(meta[ErmTable], splitter.next)}
    ELSE [ret : {Ok(nullopt), Throw("logic_error")}
                    \cup {Ok(some(t)) : t \in LifetimeTokenInputs},
          next : {nullopt} \cup {some(id) : id \in SnapshotIds}]

LifetimeStep(r) ==
    /\ refs' = r
    /\ meta' = IF r.alive THEN meta ELSE <<>>
    /\ UNCHANGED <<tmap, topology, pub, task, opts>>

MakeSplitter ==
    /\ "erm" \in refs.holders
    /\ ~refs.splitter
    /\ splitter' = NewSplitter
    /\ res' = [op |-> "make_splitter", args |-> <<>>]
    /\ LifetimeStep([refs EXCEPT !.holders = make_splitter(refs.holders),
                                 !.splitter = TRUE])

\* the replication map, or another holder, lets go of the snapshot
Release(who) ==
    /\ who \in refs.holders
    /\ res' = [op |-> "release", args |-> <<who>>]
    /\ UNCHANGED splitter
    /\ LifetimeStep(release(refs, who))

DestroySplitter ==
    /\ refs.splitter
    /\ splitter' = NewSplitter
    /\ res' = [op |-> "~splitter", args |-> <<>>]
    /\ LifetimeStep([release(refs, "splitter") EXCEPT !.splitter = FALSE])

SplitterReset(t) ==
    /\ refs.splitter
    /\ \E n \in reset_outcomes(t) :
          splitter' = [next |-> n,
                       emitted |-> <<>>,
                       pos |-> some(t),
                       restarted |-> (splitter.emitted # <<>>)]
    /\ res' = [op |-> "reset", args |-> <<t>>]
    /\ UNCHANGED <<tmap, meta, rest>>

SplitterNextToken ==
    /\ refs.splitter
    /\ exhausted_calls(splitter.emitted) < MaxExhaustedCalls
    /\ Len(splitter.emitted) < tablet_count(SnapshotMap) + MaxExhaustedCalls
    /\ \E r \in next_token_outcomes :
          /\ splitter' = [splitter EXCEPT !.next = r.next,
                                          !.emitted = Append(splitter.emitted, r.ret)]
          /\ res' = [op |-> "next_token", args |-> <<>>, ret |-> r.ret]
    /\ UNCHANGED <<tmap, meta, rest>>

InitLifetime ==
    /\ tmap = NoMap
    /\ meta = [t \in {ErmTable} |-> SnapshotMap]
    /\ res = NoResult
    /\ splitter = NewSplitter
    /\ topology = NotUsed
    /\ pub = NotUsed
    /\ refs = [holders |-> Owners, alive |-> TRUE, splitter |-> FALSE]
    /\ task = NotUsed
    /\ opts = NotUsed

NextLifetime ==
    \/ MakeSplitter
    \/ \E who \in Owners : Release(who)
    \/ DestroySplitter
    \/ \E t \in LifetimeTokenInputs : SplitterReset(t)
    \/ SplitterNextToken

SpecLifetime == InitLifetime /\ [][NextLifetime]_vars

(***************************************************************************)
(* Claims about the snapshot's lifetime (SpecLifetime).                    *)
(***************************************************************************)
\* C18: while a splitter returned by make_splitter exists, it is an owner of
\* the topology snapshot, and the snapshot with the tablet map that reset and
\* next_token read has not been destroyed, also after the replication map and
\* every other holder have released it.
C18_SplitterKeepsSnapshot ==
    refs.splitter =>
        /\ "splitter" \in refs.holders
        /\ refs.alive
        /\ ErmTable \in DOMAIN meta

\* the splitter is the only owner left and next_token still reads the map
C18_Witness ==
    /\ refs.splitter
    /\ refs.holders = {"splitter"}
    /\ res.op = "next_token"
    /\ res.ret = Ok(some(get_last_token(SnapshotMap, last_tablet(SnapshotMap)).value))

(***************************************************************************)
(* clear_gently (SpecClear). task is the coroutine of                      *)
(* tablet_metadata::clear_gently: where it is (pc), the maps its loop has  *)
(* not reached yet (todo), the map it is clearing (cur) and the elements   *)
(* it has released since it last gave up its turn (batch). The other       *)
(* operations return no future: they are single steps, taken only when the *)
(* coroutine does not hold the turn.                                       *)
(***************************************************************************)
IdleTask == [pc |-> "idle", todo |-> {}, cur |-> nullopt, batch |-> 0]

\* a map with a transition on its first tablet
with_transition(m) ==
    set_tablet_transition_info(m, 0,
        [next |-> <<tablet_replica("hostB", 0)>>,
         pending_replica |-> tablet_replica("hostB", 0)]).value

ClearMapInputs ==
    {tablet_map_ctor(Pow2(k)).value : k \in 0 .. MaxLog2}
        \cup {with_transition(tablet_map_ctor(Pow2(k)).value) : k \in 0 .. MaxLog2}

ClearMetadataInputs ==
    UNION {[tables -> ClearMapInputs] : tables \in SUBSET TableIds}

\* mutant: the loop ends after the first map
maps_to_clear_first(mt) ==
    IF DOMAIN mt = {} THEN {} ELSE {CHOOSE t \in DOMAIN mt : TRUE}

\* for (auto&& [id, map] : _tablets)
maps_to_clear(mt) == DOMAIN mt

\* utils::clear_gently(_tablets): the vector gives up its last element
release_element(m) == [m EXCEPT !.tablets = SubSeq(m.tablets, 1, Len(m.tablets) - 1)]

\* the map that is being cleared has nothing left, or no map is being cleared
map_finished ==
    IF task.cur = nullopt THEN TRUE ELSE meta[task.cur[1]].tablets = <<>>

ClearStep(t) ==
    /\ task' = t
    /\ UNCHANGED <<tmap, res, splitter, topology, pub, refs, opts>>

\* tablet_metadata::clear_gently() is called
ClearGently ==
    /\ task.pc = "idle"
    /\ ClearStep([pc |-> "running", todo |-> maps_to_clear(meta), cur |-> nullopt, batch |-> 0])
    /\ UNCHANGED meta

\* the loop reaches a map: co_await map.clear_gently()
ClearNextMap ==
    /\ task.pc = "running"
    /\ map_finished
    /\ \E table \in task.todo :
          ClearStep([task EXCEPT !.todo = task.todo \ {table}, !.cur = some(table)])
    /\ UNCHANGED meta

ClearElement ==
    /\ task.pc = "running"
    /\ ~map_finished
    /\ task.batch < MaxBatch
    /\ meta' = [meta EXCEPT ![task.cur[1]] = release_element(meta[task.cur[1]])]
    /\ ClearStep([task EXCEPT !.batch = task.batch + 1])

\* the coroutine gives up its turn
ClearYield ==
    /\ task.pc = "running"
    /\ task.batch >= 1
    /\ ClearStep([task EXCEPT !.pc = "suspended"])
    /\ UNCHANGED meta

\* the scheduler runs the coroutine again
ClearResume ==
    /\ task.pc = "suspended"
    /\ ClearStep([task EXCEPT !.pc = "running", !.batch = 0])
    /\ UNCHANGED meta

\* co_return
ClearReturn ==
    /\ task.pc = "running"
    /\ map_finished
    /\ task.todo = {}
    /\ ClearStep([task EXCEPT !.pc = "done", !.cur = nullopt])
    /\ UNCHANGED meta

\* another operation of tablet_metadata, run to completion in one turn
ClearOther(id) ==
    /\ task.pc # "running"
    /\ GetTabletMap(id)

ClearTask ==
    ClearNextMap \/ ClearElement \/ ClearYield \/ ClearResume \/ ClearReturn

InitClear ==
    /\ tmap = NoMap
    /\ meta \in ClearMetadataInputs
    /\ res = NoResult
    /\ splitter = NewSplitter
    /\ topology = NotUsed
    /\ pub = NotUsed
    /\ refs = NotUsed
    /\ task = IdleTask
    /\ opts = NotUsed

NextClear ==
    \/ ClearGently
    \/ ClearNextMap
    \/ ClearElement
    \/ ClearYield
    \/ ClearResume
    \/ ClearReturn
    \/ \E id \in TableIds : ClearOther(id)

\* the scheduler runs every coroutine that is ready
SpecClear == InitClear /\ [][NextClear]_vars /\ WF_vars(ClearTask)

Chars == {"0", "7", "-", "+", "x", " "}

Strings == UNION {[1 .. n -> Chars] : n \in 0 .. MaxOptionLen}

isspace(ch) == ch = " "

isdigit(ch) == ch \in {"0", "7"}

digit(ch) == IF ch = "7" THEN 7 ELSE 0

\* the first index at or after i that holds no white space
RECURSIVE skip_space(_, _)
skip_space(val, i) ==
    IF i <= Len(val) /\ isspace(val[i]) THEN skip_space(val, i + 1) ELSE i

\* the first index at or after i that holds no digit
RECURSIVE skip_digits(_, _)
skip_digits(val, i) ==
    IF i <= Len(val) /\ isdigit(val[i]) THEN skip_digits(val, i + 1) ELSE i

\* the number written by the digits val[i .. j - 1]
RECURSIVE digits_value(_, _, _)
digits_value(val, i, j) ==
    IF j <= i THEN 0 ELSE digits_value(val, i, j - 1) * 10 + digit(val[j - 1])

\* std::stol(val): white space, an optional sign, then the longest run of
\* digits; what follows the digits is ignored
stol(val) ==
    LET s == skip_space(val, 1)
        signed == s <= Len(val) /\ val[s] \in {"-", "+"}
        i == IF signed THEN s + 1 ELSE s
        j == skip_digits(val, i)
        magnitude == digits_value(val, i, j)
        n == IF signed /\ val[s] = "-" THEN 0 - magnitude ELSE magnitude IN
    IF j = i THEN Throw("invalid_argument")
    ELSE IF n >= Pow2(LongBits - 1) \/ n < 0 - Pow2(LongBits - 1) THEN Throw("out_of_range")
    ELSE Ok(n)

\* the long that stol returns, converted to the size_t that is returned
to_size_t(n) == (n + Pow2(LongBits)) % Pow2(LongBits)

parse_initial_tablets(val) ==
    LET n == stol(val) IN
    IF n.status # "ok" THEN Throw("configuration_exception") ELSE Ok(to_size_t(n.value))

validate_tablet_options(tablets_feature, options) ==
    IF "initial_tablets" \in DOMAIN options
    THEN IF ~tablets_feature THEN Throw("configuration_exception")
         ELSE LET n == parse_initial_tablets(options["initial_tablets"]) IN
              IF n.status # "ok" THEN n ELSE Ok(<<>>)
    ELSE Ok(<<>>)

OptionInputs ==
    UNION {[keys -> Strings] : keys \in SUBSET {"initial_tablets"}}
        \cup {[k \in {"initial_tablets", "replication_factor"} |->
                  IF k = "initial_tablets" THEN val ELSE <<"7">>] : val \in Strings}

NewStrategy == [initial_tablets |-> 0, uses_tablets |-> FALSE, per_table |-> FALSE]

\* mark_as_per_table(ars)
mark_as_per_table(strategy) == [strategy EXCEPT !.per_table = TRUE]

\* opts.erase(i)
erase(options, key) == [k \in (DOMAIN options) \ {key} |-> options[k]]

\* mutant: the key stays in the option set
process_tablet_options_keeping(strategy, options) ==
    IF "initial_tablets" \in DOMAIN options
    THEN LET n == parse_initial_tablets(options["initial_tablets"]) IN
         IF n.status # "ok"
         THEN [status |-> n.status, strategy |-> strategy, options |-> options]
         ELSE [status |-> "ok",
               strategy |-> mark_as_per_table([strategy EXCEPT !.initial_tablets = n.value,
                                                               !.uses_tablets = TRUE]),
               options |-> options]
    ELSE [status |-> "ok", strategy |-> strategy, options |-> options]

\* what the call does to the strategy and to the option set, and how it ends
process_tablet_options(strategy, options) ==
    IF "initial_tablets" \in DOMAIN options
    THEN LET n == parse_initial_tablets(options["initial_tablets"]) IN
         IF n.status # "ok"
         THEN [status |-> n.status, strategy |-> strategy, options |-> options]
         ELSE [status |-> "ok",
               strategy |-> mark_as_per_table([strategy EXCEPT !.initial_tablets = n.value,
                                                               !.uses_tablets = TRUE]),
               options |-> erase(options, "initial_tablets")]
    ELSE [status |-> "ok", strategy |-> strategy, options |-> options]

\* a strategy that has processed no options, and one that has processed
\* {"initial_tablets": "7"}
StrategyInputs ==
    {NewStrategy,
     process_tablet_options(NewStrategy, [k \in {"initial_tablets"} |-> <<"7">>]).strategy}

ValidateTabletOptions ==
    /\ res' = [op |-> "validate_tablet_options",
               args |-> <<opts.tablets, opts.options>>,
               ret |-> validate_tablet_options(opts.tablets, opts.options)]
    /\ UNCHANGED <<tmap, meta, splitter, rest>>

ProcessTabletOptions ==
    LET r == process_tablet_options(opts.strategy, opts.options) IN
    /\ opts' = [opts EXCEPT !.strategy = r.strategy, !.options = r.options]
    /\ res' = [op |-> "process_tablet_options",
               args |-> <<opts.strategy, opts.options>>,
               ret |-> [status |-> r.status]]
    /\ UNCHANGED <<tmap, meta, splitter, topology, pub, refs, task>>

InitOptions ==
    /\ tmap = NoMap
    /\ meta = <<>>
    /\ res = NoResult
    /\ splitter = NewSplitter
    /\ topology = NotUsed
    /\ pub = NotUsed
    /\ refs = NotUsed
    /\ task = NotUsed
    /\ opts \in [options : OptionInputs, tablets : BOOLEAN, strategy : StrategyInputs]

NextOptions ==
    \/ ValidateTabletOptions
    \/ ProcessTabletOptions

SpecOptions == InitOptions /\ [][NextOptions]_vars

(***************************************************************************)
(* Claims about the strategy's options (SpecOptions).                      *)
(***************************************************************************)
\* a non-empty string of digits
non_negative_integer(val) ==
    val # <<>> /\ \A i \in DOMAIN val : isdigit(val[i])

\* C20: validate_tablet_options fails with a configuration error whenever the
\* options hold initial_tablets and the tablets feature is disabled or the
\* value is not a valid non-negative integer (negative, digits followed by
\* other characters, empty, not a number); it succeeds when the key is
\* absent; and it leaves the options as they were.
C20_ValidateTabletOptions ==
    res.op = "validate_tablet_options" =>
        /\ opts.options = res.args[2]
        /\ IF "initial_tablets" \in DOMAIN opts.options
           THEN (~opts.tablets \/ ~non_negative_integer(opts.options["initial_tablets"]))
                    => res.ret.status = "configuration_exception"
           ELSE res.ret.status = "ok"

\* a string of digits whose value fits a long
valid_initial_tablets(val) ==
    non_negative_integer(val) /\ digits_value(val, 1, Len(val) + 1) < Pow2(LongBits - 1)

\* C21: process_tablet_options on options that hold initial_tablets with a
\* valid value leaves the strategy marked tablet-based and per-table with
\* the parsed count recorded, and the option set without initial_tablets and
\* with every other option as it was; when the key is absent the strategy and
\* the option set are unchanged.
C21_ProcessTabletOptions ==
    res.op = "process_tablet_options" =>
        LET strategy == res.args[1]
            options == res.args[2] IN
        IF "initial_tablets" \in DOMAIN options
        THEN valid_initial_tablets(options["initial_tablets"]) =>
                /\ res.ret.status = "ok"
                /\ opts.strategy.uses_tablets
                /\ opts.strategy.per_table
                /\ opts.strategy.initial_tablets =
                       digits_value(options["initial_tablets"], 1,
                                    Len(options["initial_tablets"]) + 1)
                /\ DOMAIN opts.options = (DOMAIN options) \ {"initial_tablets"}
                /\ \A k \in DOMAIN opts.options : opts.options[k] = options[k]
        ELSE /\ res.ret.status = "ok"
             /\ opts.strategy = strategy
             /\ opts.options = options

\* a new strategy, a valid count next to another option, which is kept
C21_Witness ==
    /\ res.op = "process_tablet_options"
    /\ res.args[1] = NewStrategy
    /\ DOMAIN res.args[2] = {"initial_tablets", "replication_factor"}
    /\ res.args[2]["initial_tablets"] = <<"7", "0">>
    /\ opts.strategy = [initial_tablets |-> 70, uses_tablets |-> TRUE, per_table |-> TRUE]
    /\ DOMAIN opts.options = {"replication_factor"}

\* C22: process_tablet_options on options whose initial_tablets value is not
\* valid fails with a configuration error and changes nothing: the strategy's
\* flags and recorded count and the option set, key included, are as before.
C22_ProcessInvalidNoChange ==
    (/\ res.op = "process_tablet_options"
     /\ "initial_tablets" \in DOMAIN res.args[2]
     /\ ~valid_initial_tablets(res.args[2]["initial_tablets"]))
        => /\ res.ret.status = "configuration_exception"
           /\ opts.strategy = res.args[1]
           /\ opts.options = res.args[2]

\* the positions of the transition's next set that are on host
next_on(id, host) ==
    {i \in DOMAIN tmap.transitions[id].next : tmap.transitions[id].next[i].host = host}

\* C23: when the tablet has a transition, get_shard(id, host) for a host that
\* has no current replica but has a replica in the transition's next set
\* returns that replica's shard, not nullopt.
C23_GetShardConsidersNext ==
    (/\ res.op = "get_shard"
     /\ res.args[1] \in ValidIds
     /\ has_transition(res.args[1])
     /\ replicas_on(res.args[1], res.args[2]) = {}
     /\ next_on(res.args[1], res.args[2]) # {})
        => res.ret = Ok(some(tmap.transitions[res.args[1]]
                                 .next[least(next_on(res.args[1], res.args[2]))].shard))

\* C24: a successful set_tablet(id, info) makes get_tablet_info(id) equal
\* info and leaves every other tablet's info, every transition entry and
\* tablet_count as they were; a successful set_tablet_transition_info(id,
\* info) makes get_tablet_transition_info(id) equal info, whatever entry was
\* there, and leaves every tablet's info, every other transition entry and
\* tablet_count as they were.
C24_OverwriteOneSlot ==
    [][/\ (res'.op = "set_tablet" /\ res'.status = "ok") =>
             /\ get_tablet_info(tmap', res'.id) = Ok(res'.info)
             /\ tablet_count(tmap') = tablet_count(tmap)
             /\ \A k \in MigrationIds \ {res'.id} : tmap'.tablets[k + 1] = tmap.tablets[k + 1]
             /\ tmap'.transitions = tmap.transitions
       /\ (res'.op = "set_tablet_transition_info" /\ res'.status = "ok") =>
             /\ get_tablet_transition_info(tmap', res'.id) = Ok(some(res'.info))
             /\ tablet_count(tmap') = tablet_count(tmap)
             /\ tmap'.tablets = tmap.tablets
             /\ DOMAIN tmap'.transitions = (DOMAIN tmap.transitions) \cup {res'.id}
             /\ \A k \in (DOMAIN tmap.transitions) \ {res'.id} :
                   tmap'.transitions[k] = tmap.transitions[k]]_vars

\* an entry has just been stored for one tablet while another tablet keeps a
\* different entry and its own replicas
C24_Witness ==
    /\ res.op = "set_tablet_transition_info"
    /\ res.status = "ok"
    /\ tmap.transitions[res.id] = res.info
    /\ \E k \in (DOMAIN tmap.transitions) \ {res.id} :
          /\ tmap.transitions[k] # res.info
          /\ tmap.tablets[k + 1].replicas = NewReplicas
          /\ tmap.tablets[res.id + 1].replicas = OldReplicas

\* C25: set_tablet and set_tablet_transition_info with an id that is not of
\* the map throw the invalid-tablet-id error (std::logic_error) and leave the
\* map as it was; no transition entry is ever stored under an id that is not
\* a tablet of the map.
C25_InvalidIdNoChange ==
    /\ [](tmap # NoMap => DOMAIN tmap.transitions \subseteq ValidIds)
    /\ [][(/\ tmap # NoMap
           /\ res'.op \in {"set_tablet", "set_tablet_transition_info"}
           /\ res'.id \notin ValidIds)
             => (res'.status = "logic_error" /\ tmap' = tmap)]_vars

\* the call was refused on a map that holds replicas and a transition
C25_Witness ==
    /\ res.op = "set_tablet_transition_info"
    /\ res.id \notin ValidIds
    /\ res.status = "logic_error"
    /\ DOMAIN tmap.transitions # {}
    /\ \E i \in DOMAIN tmap.tablets : tmap.tablets[i].replicas # <<>>

\* C26: after clear_gently has completed, every map the metadata owns
\* retains no per-tablet data: tablet_count() is 0 and transitions() is
\* empty.
C26_ClearedMapIsEmpty ==
    task.pc = "done" =>
        \A table \in DOMAIN meta :
            /\ tablet_count(meta[table]) = 0
            /\ DOMAIN meta[table].transitions = {}

(***************************************************************************)
(* Copies of tablet_metadata (SpecCopy). pub holds the tablet_map objects  *)
(* in memory (store) and the tablet_metadata objects (objects), each a     *)
(* table_to_tablet_map from table ids to the place of its tablet_map in    *)
(* the store: the first object is the original, the second its copy.       *)
(***************************************************************************)
CopyTables == {ErmTable}

CopyMapInputs == {tablet_map_ctor(Pow2(CopyLog2)).value}

CopyIds == 0 .. (Pow2(CopyLog2) - 1)

\* the tablet_metadata value of object o
view(p, o) == [t \in DOMAIN p.objects[o] |-> p.store[p.objects[o][t]]]

\* mutant: the copy shares the tablet_map objects of the original
copy_tablet_metadata_shared(p, o) ==
    [p EXCEPT !.objects = Append(p.objects, p.objects[o])]

\* the copy constructor: every tablet_map of the original is copied to a new
\* place, the map of ErmTable first
copy_tablet_metadata(p, o) ==
    LET tables == DOMAIN p.objects[o]
        place(t) == Len(p.store) + Cardinality({u \in tables : u = ErmTable \/ u = t})
        table_at(i) == CHOOSE t \in tables : place(t) = i IN
    [p EXCEPT !.store = p.store \o [i \in 1 .. Cardinality(tables) |->
                                       p.store[p.objects[o][table_at(Len(p.store) + i)]]],
              !.objects = Append(p.objects, [t \in tables |-> place(t)])]

\* _tablets.insert_or_assign(id, map) on object o
object_set_tablet_map(p, o, id, map) ==
    IF id \in DOMAIN p.objects[o]
    THEN [p EXCEPT !.store[p.objects[o][id]] = map]
    ELSE [p EXCEPT !.store = Append(p.store, map),
                   !.objects[o] = [t \in (DOMAIN p.objects[o]) \cup {id} |->
                                      IF t = id THEN Len(p.store) + 1 ELSE p.objects[o][t]]]

\* a mutator applied through the tablet_map& that get_tablet_map returned
object_update(p, o, table, r) ==
    IF r.status = "ok" THEN [p EXCEPT !.store[p.objects[o][table]] = r.value] ELSE p

CopyStep(op, o, args, status, p) ==
    /\ pub' = p
    /\ res' = [op |-> op, object |-> o, args |-> args, status |-> status]
    /\ UNCHANGED <<tmap, meta, splitter, topology, refs, task, opts>>

CopyMetadata ==
    /\ Len(pub.objects) = 1
    /\ CopyStep("copy", 2, <<1>>, "ok", copy_tablet_metadata(pub, 1))

CopySetTabletMap(o, table, map) ==
    CopyStep("set_tablet_map", o, <<table, map>>, "ok", object_set_tablet_map(pub, o, table, map))

CopySetTablet(o, table, id, info) ==
    LET m == get_tablet_map(view(pub, o), table)
        r == IF m.status = "ok" THEN set_tablet(m.value, id, info) ELSE m IN
    CopyStep("get_tablet_map.set_tablet", o, <<table, id, info>>, r.status,
             object_update(pub, o, table, r))

CopySetTabletTransitionInfo(o, table, id, info) ==
    LET m == get_tablet_map(view(pub, o), table)
        r == IF m.status = "ok" THEN set_tablet_transition_info(m.value, id, info) ELSE m IN
    CopyStep("get_tablet_map.set_tablet_transition_info", o, <<table, id, info>>, r.status,
             object_update(pub, o, table, r))

InitCopy ==
    /\ tmap = NoMap
    /\ meta = <<>>
    /\ res = NoResult
    /\ splitter = NewSplitter
    /\ topology = NotUsed
    /\ pub = [store |-> <<>>, objects |-> << <<>> >>]
    /\ refs = NotUsed
    /\ task = NotUsed
    /\ opts = NotUsed

NextCopy ==
    \/ CopyMetadata
    \/ \E o \in DOMAIN pub.objects, table \in CopyTables, map \in CopyMapInputs :
          CopySetTabletMap(o, table, map)
    \/ \E o \in DOMAIN pub.objects, table \in CopyTables, id \in CopyIds,
          info \in SnapshotInfoInputs : CopySetTablet(o, table, id, info)
    \/ \E o \in DOMAIN pub.objects, table \in CopyTables, id \in CopyIds,
          info \in SnapshotTransitionInputs : CopySetTabletTransitionInfo(o, table, id, info)

SpecCopy == InitCopy /\ [][NextCopy]_vars

(***************************************************************************)
(* Claims about copies of tablet_metadata (SpecCopy).                      *)
(***************************************************************************)
\* what get_tablet_map, get_tablet_info, get_tablet_transition_info and
\* get_shard answer on object o
answers(p, o) ==
    [table \in CopyTables |->
        LET m == get_tablet_map(view(p, o), table) IN
        IF m.status # "ok" THEN [map |-> m]
        ELSE [map |-> m,
              info |-> [id \in CopyIds |-> get_tablet_info(m.value, id)],
              transition |-> [id \in CopyIds |-> get_tablet_transition_info(m.value, id)],
              shard |-> [id \in CopyIds |->
                            [h \in Hosts |->
                                IF check_tablet_id(m.value, id)
                                THEN get_shard(m.value, id, h) ELSE Throw("logic_error")]]]]

\* C27: a copy of a tablet_metadata answers as the original did when it was
\* copied, and from then on set_tablet_map, set_tablet and
\* set_tablet_transition_info on one of the two leave every answer of
\* get_tablet_map, get_tablet_info, get_tablet_transition_info and get_shard
\* on the other as it was.
C27_CopyIsIndependent ==
    [][/\ res'.op = "copy" =>
             /\ answers(pub', 1) = answers(pub, 1)
             /\ answers(pub', 2) = answers(pub, 1)
       /\ res'.op # "copy" =>
             \A o \in DOMAIN pub.objects :
                 res'.object # o => answers(pub', o) = answers(pub, o)]_vars

\* the copy has been given replicas and a transition that the original does
\* not have
C27_Witness ==
    /\ Len(pub.objects) = 2
    /\ res.op = "get_tablet_map.set_tablet_transition_info"
    /\ res.object = 2
    /\ res.status = "ok"
    /\ ErmTable \in DOMAIN pub.objects[1]
    /\ view(pub, 1)[ErmTable].transitions = <<>>
    /\ view(pub, 1)[ErmTable].tablets # view(pub, 2)[ErmTable].tablets

====
